---------------------------- MODULE Spec2Model ----------------------------
(***************************************************************************)
(* The authentication gateway of bionicpro (src/bff/main.py): the shared   *)
(* in-memory session table, the OAuth2 Authorization Code + PKCE login     *)
(* flow, the live status check, logout and the proxied report download.    *)
(*                                                                         *)
(* Execution model.  uvicorn runs one asyncio event loop plus a thread     *)
(* pool.  The `async def` handlers (auth_status, login, get_user, logout)  *)
(* contain no await, so each runs to completion on the loop before the     *)
(* next one starts; the plain `def` handlers (callback, download_report)   *)
(* run on pool threads and interleave, statement by statement, with each   *)
(* other and with the handler the loop is running.  Every access to the    *)
(* `sessions` dict is one step.                                            *)
(*                                                                         *)
(* The identity provider and the Report Generator are the environment:     *)
(* the outcome of every outbound call is chosen nondeterministically.      *)
(* secrets.token_urlsafe is modelled as a source of never-repeating        *)
(* values (the counter `issued`).                                          *)
(*                                                                         *)
(* The Report Generator (src/report-api/main.py) is modelled next to it:   *)
(* verify_token, the username-to-scope mapping, the query on the           *)
(* analytical table and the CSV expansion.  It is specified on its own     *)
(* (ReportSpec), with the table's content and the bearer tokens as inputs. *)
(***************************************************************************)
EXTENDS Integers, Sequences, FiniteSets, TLC

\* ---------------------------------------------------------------- bounds
\* secrets the gateway may generate when requests are answered one at a time
MaxKeys == 4
\* secrets the gateway may generate when requests overlap
MaxRaceKeys == 3
\* pool threads
NWorkers == 2
\* requests that may overlap
MaxInFlight == 2

\* ------------------------------------------------------------- constants
\* request.cookies.get("session_id") when the cookie is absent (None)
NoCookie == 0
\* a cookie / state value the gateway never generated
Forged == 99
\* dict.get(...) on a missing key, and JSON fields the provider left out
None == 0
\* an outbound call that raised (timeout, connection error) instead of answering
NetErr == 0

Workers == 1..NWorkers
\* The provider never issues the same token twice: the n-th accepted exchange
\* returns access token n and, when it sends one, the refresh token that goes with it.
AccessToken(n) == n
RefreshToken(n) == 50 + n

\* user_info values: what userinfo returned, the callback's fallback, and {}
RealUser == "alice"
Placeholder == "user_from_keycloak"
EmptyUser == "{}"

VARIABLES
    sessions,       \* the global dict: key -> entry
    issued,         \* how many values secrets.token_urlsafe has produced
    client_secret,  \* CONFIG["client_secret"] is non-empty
    loop,           \* the handler the event loop is running
    pool,           \* pool[w]: the handler pool thread w is running
    granted,        \* how many token exchanges the provider has accepted
    origin,         \* history: origin[k] = the state whose callback minted k
    removed,        \* history: removed[k] = the handler that deleted entry k
    now,            \* the Report Generator's clock (time.time() as jwt.decode reads it)
    table,          \* the rows of user_prosthesis_reports
    api,            \* the request the Report Generator is handling, or handled last
    etl             \* the run of the prosthesis_etl DAG: its task and its XCom value

\* the gateway's state, and the Report Generator's
gw == <<sessions, issued, client_secret, loop, pool, granted, origin, removed>>
svc == <<now, table, api, etl>>

vars == <<sessions, issued, client_secret, loop, pool, granted, origin, removed,
          now, table, api, etl>>

\* ------------------------------------------------------------ the entries
\* generate_pkce_code_verifier: the n-th secret, as a verifier (distinct from every key)
generate_pkce_code_verifier(n) == 100 + n

\* hashlib.sha256(verifier.encode()).digest(): 32 bytes.  The hash itself is
\* not computed; each verifier has its own fixed digest.
sha256(verifier) == [i \in 1..32 |-> (verifier * 31 + i * 7) % 256]

\* the URL-safe base64 alphabet
B64Alphabet ==
    <<"A", "B", "C", "D", "E", "F", "G", "H", "I", "J", "K", "L", "M", "N", "O", "P",
      "Q", "R", "S", "T", "U", "V", "W", "X", "Y", "Z", "a", "b", "c", "d", "e", "f",
      "g", "h", "i", "j", "k", "l", "m", "n", "o", "p", "q", "r", "s", "t", "u", "v",
      "w", "x", "y", "z", "0", "1", "2", "3", "4", "5", "6", "7", "8", "9", "-", "_">>

\* base64.urlsafe_b64encode(...).decode(): every 3 bytes give 4 characters, the
\* last group is filled up with "="
urlsafe_b64encode(bytes) ==
    LET n == Len(bytes)
        groups == (n + 2) \div 3
        byte(i) == IF i <= n THEN bytes[i] ELSE 0
        value(g) == byte(3 * g - 2) * 65536 + byte(3 * g - 1) * 256 + byte(3 * g)
        sextet(g, j) ==
            CASE j = 1 -> value(g) \div 262144
              [] j = 2 -> (value(g) \div 4096) % 64
              [] j = 3 -> (value(g) \div 64) % 64
              [] j = 4 -> value(g) % 64
        char(k) ==
            LET g == ((k - 1) \div 4) + 1
                j == ((k - 1) % 4) + 1
            IN  IF j - 1 > n - 3 * (g - 1) THEN "=" ELSE B64Alphabet[sextet(g, j) + 1]
    IN  [k \in 1..(4 * groups) |-> char(k)]

\* str.rstrip(c)
RECURSIVE rstrip(_, _)
rstrip(str, c) ==
    IF Len(str) > 0 /\ str[Len(str)] = c
    THEN rstrip(SubSeq(str, 1, Len(str) - 1), c)
    ELSE str

\* faulty variant: the padding is kept
generate_pkce_code_challenge_padded(verifier) ==
    urlsafe_b64encode(sha256(verifier))

\* lines 41-43
generate_pkce_code_challenge(verifier) ==
    rstrip(urlsafe_b64encode(sha256(verifier)), "=")

\* sessions[state] = {"code_verifier": ..., "status": "pending"}
PendingEntry(verifier) ==
    [status |-> "pending", code_verifier |-> verifier, access_token |-> None,
     refresh_token |-> None, id_token |-> None, user_info |-> EmptyUser]

\* sessions[session_id] = {"access_token", "refresh_token", "id_token", "user_info"}
ActiveEntry(tokens, user_info) ==
    [status |-> "active", code_verifier |-> None,
     access_token |-> tokens.access_token,
     refresh_token |-> tokens.refresh_token,
     id_token |-> tokens.id_token, user_info |-> user_info]

\* the JSON bodies the token endpoint can send with its n-th 200
TokenResponses(n) ==
    [access_token : {AccessToken(n)}, refresh_token : {None, RefreshToken(n)},
     id_token : {5}]

NoTokens == [access_token |-> None, refresh_token |-> None, id_token |-> None]

\* dict operations
Has(k) == k \in DOMAIN sessions
Put(k, e) == [x \in DOMAIN sessions \cup {k} |-> IF x = k THEN e ELSE sessions[x]]
Del(k) == [x \in DOMAIN sessions \ {k} |-> sessions[x]]

\* history bookkeeping: h with k mapped to v
Note(h, k, v) == [x \in DOMAIN h \cup {k} |-> IF x = k THEN v ELSE h[x]]

\* `not session_id or session_id not in sessions`
Missing(c) == c = NoCookie \/ ~Has(c)

\* ---------------------------------------------------------------- requests
\* An outbound HTTP call of the current request and the status it got.
Call(ep, cred, status) == [ep |-> ep, cred |-> cred, status |-> status]

\* The response of a handler.
BaseResp ==
    [status |-> 200, location |-> "", detail |-> "", authenticated |-> FALSE,
     user |-> EmptyUser, session_cleared |-> FALSE, keycloak_logout |-> FALSE,
     set_cookie |-> NoCookie, delete_cookie |-> FALSE, content |-> "",
     code_challenge |-> <<>>]

\* raise HTTPException(status_code, detail), and an exception nobody catches
HTTPError(status, detail) == [BaseResp EXCEPT !.status = status, !.detail = detail]
Unhandled == HTTPError(500, "Internal Server Error")

\* A handler that is not running.
Idle ==
    [pc |-> "idle", op |-> "", key |-> NoCookie, found |-> FALSE, tok |-> None,
     tokens |-> NoTokens,
     user |-> EmptyUser, sid |-> NoCookie, calls |-> <<>>, resp |-> BaseResp]

\* `found` remembers whether the handler's first lookup found its entry
Begin(op, key, pc) ==
    [Idle EXCEPT !.pc = pc, !.op = op, !.key = key, !.found = (pc # "done")]
Finish(p, resp) == [p EXCEPT !.pc = "done", !.resp = resp]
Called(p, ep, cred, status) == Append(p.calls, Call(ep, cred, status))

\* values a client can put in the cookie or the state parameter
Inputs == (1..issued) \cup {Forged}
Cookies == Inputs \cup {NoCookie}

\* pool threads that will still call secrets.token_urlsafe(32)
Minting == {w \in Workers : pool[w].pc \in {"cb_read", "cb_exchange", "cb_userinfo", "cb_store"}}
CanIssue(limit) == issued + Cardinality(Minting) < limit

\* the number of requests being handled
InFlight ==
    Cardinality({w \in Workers : pool[w].pc # "idle"}) + (IF loop.pc = "idle" THEN 0 ELSE 1)

\* the server takes a new request while fewer than `room` are being handled
Admit(room) == InFlight < room

\* ------------------------------------------- the Report Generator: data
\* src/report-api/main.py.  A request is handled in two steps: the
\* verify_token dependency, then the body of download_report.  The service
\* keeps nothing between requests; `api` holds the request being handled
\* until the next one arrives.

\* the clock runs from 0 to MaxTime
MaxTime == 2
\* usernames end with no digit or one of the digits 1..MaxDigit
MaxDigit == 4
\* the table holds rows of the dates 1..MaxDate, at most MaxRows of them
MaxDate == 2
MaxRows == 2

\* a Python str is the sequence of its characters
Digit == <<"1", "2", "3", "4", "5", "6", "7", "8", "9">>
user == <<"u", "s", "e", "r">>
prothetic == <<"p", "r", "o", "t", "h", "e", "t", "i", "c">>
admin == <<"a", "d", "m", "i", "n">>
prot == <<"p", "r", "o", "t">>
Numbered(base, d) == base \o <<Digit[d]>>

\* preferred_username claims: "", "1", "user", "user1", "prot3", "prothetic4", ...
Bases == {user, prothetic, admin, prot, <<>>}
Usernames == Bases \cup {Numbered(b, d) : b \in Bases, d \in 1..MaxDigit}
\* decoded_token.get("preferred_username") when the claim is absent (None)
NoClaim == <<"None">>

\* a token without an exp claim
NoExp == 0
Expiries == (1..MaxTime) \cup {NoExp}

\* Bearer tokens.  wellformed: it parses as a JWT; kid: its key id is in the
\* provider's JWKS; signed: its signature verifies under that key.
Garbage ==
    [wellformed |-> FALSE, alg |-> "", kid |-> FALSE, signed |-> FALSE,
     exp |-> NoExp, preferred_username |-> NoClaim]
\* tokens the provider issued: every username claim, and every expiry for
\* two of the users
IssuedTokens ==
    [wellformed : {TRUE}, alg : {"RS256"}, kid : {TRUE}, signed : {TRUE},
     exp : {NoExp}, preferred_username : Usernames \cup {NoClaim}]
    \cup
    [wellformed : {TRUE}, alg : {"RS256"}, kid : {TRUE}, signed : {TRUE},
     exp : Expiries,
     preferred_username : {Numbered(user, 1), Numbered(prothetic, 2)}]
\* every combination of algorithm, key id and signature, for one username
CraftedTokens ==
    [wellformed : {TRUE}, alg : {"RS256", "HS256", "none"}, kid : BOOLEAN,
     signed : BOOLEAN, exp : {NoExp, MaxTime},
     preferred_username : {Numbered(user, 1)}]
Tokens == IssuedTokens \cup CraftedTokens \cup {Garbage}

\* the Authorization header: absent (scheme ""), "Basic ..." or "Bearer <token>"
NoHeader == [scheme |-> "", token |-> Garbage]
Headers ==
    {NoHeader} \cup [scheme : {"Bearer"}, token : Tokens]
        \cup [scheme : {"Basic"}, token : {t \in IssuedTokens : t.exp = NoExp
                                              /\ t.preferred_username = Numbered(user, 1)}]

\* what verify_token returns: user_info (the claims the handler reads)
Identity(token) == [ok |-> TRUE, preferred_username |-> token.preferred_username]
NoIdentity == [ok |-> FALSE, preferred_username |-> NoClaim]

\* the rows of user_prosthesis_reports; the readings differ from column to
\* column and from date to date
Row(client_id, date, avg_battery) ==
    [client_id |-> client_id, date |-> date,
     avg_joint_angle |-> 40 + date, max_joint_angle |-> 90 + date,
     min_joint_angle |-> 10 + date, avg_pressure |-> 20 + date,
     avg_battery |-> avg_battery, most_common_activity |-> "walking"]
Rows ==
    {Row("CLI001", d, 70 + d) : d \in 1..MaxDate}
        \cup {Row("CLI001", 1, 60), Row("CLI004", 1, 50)}
Tables == {t \in SUBSET Rows : Cardinality(t) <= MaxRows}

\* the response of the Report Generator
ApiResp ==
    [status |-> 200, detail |-> "", client_id |-> "", username |-> NoClaim,
     media_type |-> "application/json", lines |-> <<>>]
ApiError(status, detail) == [ApiResp EXCEPT !.status = status, !.detail = detail]

\* no request yet.  again: the request before this one carried the same
\* header and was let in (history).  loading: the query ran between the
\* TRUNCATE and the INSERT of a load (history)
ApiIdle ==
    [pc |-> "idle", header |-> NoHeader, again |-> FALSE,
     auth |-> NoIdentity, client_id |-> "", raised |-> FALSE, results |-> <<>>,
     loading |-> FALSE, resp |-> ApiResp]

\* no run of the DAG is active.  transformed_data: what transform_data pushed
\* to XCom; bound: data_to_insert is assigned; tries: the attempts of the
\* load task so far; before: the table when the load task began (history)
EtlIdle ==
    [pc |-> "idle", transformed_data |-> {}, bound |-> FALSE, tries |-> 0,
     before |-> {}]
\* the load has truncated the table and has not inserted yet
Inserting == {"insert", "fallback_insert"}

Init ==
    /\ sessions = <<>>
    /\ issued = 0
    /\ client_secret \in BOOLEAN
    /\ loop = Idle
    /\ pool = [w \in Workers |-> Idle]
    /\ granted = 0
    /\ origin = <<>>
    /\ removed = <<>>
    /\ now = 0
    /\ table = {}
    /\ api = ApiIdle
    /\ etl = EtlIdle

\* ------------------------------------------------------------ /auth/login
\* faulty variant: the client secret is not checked
login_unconfigured(limit, room) ==
    /\ Admit(room)
    /\ loop.pc = "idle"
    /\ CanIssue(limit)
    /\ LET state == issued + 1
           code_verifier == generate_pkce_code_verifier(state)
       IN  /\ issued' = state
           /\ sessions' = Put(state, PendingEntry(code_verifier))
           /\ loop' = Finish(Begin("login", state, "done"),
                             [BaseResp EXCEPT
                                 !.status = 302, !.location = "idp",
                                 !.code_challenge =
                                     generate_pkce_code_challenge(code_verifier)])
    /\ UNCHANGED <<client_secret, pool, granted, origin, removed>>
    /\ UNCHANGED svc

\* lines 80-106: the redirect carries state and code_challenge
login(limit, room) ==
    /\ Admit(room)
    /\ loop.pc = "idle"
    /\ IF ~client_secret
       THEN /\ loop' = Finish(Begin("login", NoCookie, "done"),
                              HTTPError(500, "Client secret not configured"))
            /\ UNCHANGED <<sessions, issued>>
       ELSE /\ CanIssue(limit)
            /\ LET state == issued + 1
                   code_verifier == generate_pkce_code_verifier(state)
               IN  /\ issued' = state
                   /\ sessions' = Put(state, PendingEntry(code_verifier))
                   /\ loop' = Finish(Begin("login", state, "done"),
                                     [BaseResp EXCEPT
                                         !.status = 302, !.location = "idp",
                                         !.code_challenge =
                                             generate_pkce_code_challenge(code_verifier)])
    /\ UNCHANGED <<client_secret, pool, granted, origin, removed>>
    /\ UNCHANGED svc

\* ----------------------------------------------------------- /auth/status
\* line 53
auth_status_check(room, c) ==
    /\ Admit(room)
    /\ loop.pc = "idle"
    /\ loop' = IF Missing(c)
               THEN Finish(Begin("status", c, "done"), BaseResp)
               ELSE Begin("status", c, "st_read")
    /\ UNCHANGED <<sessions, issued, client_secret, pool, granted, origin, removed>>
    /\ UNCHANGED svc

\* lines 56-59
auth_status_read ==
    /\ loop.pc = "st_read"
    /\ Has(loop.key)
    /\ LET e == sessions[loop.key] IN
       loop' = [loop EXCEPT !.tok = e.access_token, !.user = e.user_info,
                            !.pc = IF e.access_token # None THEN "st_call" ELSE "st_recheck"]
    /\ UNCHANGED <<sessions, issued, client_secret, pool, granted, origin, removed>>
    /\ UNCHANGED svc

\* line 56 when the entry has vanished since line 53: KeyError, not caught
auth_status_read_gone ==
    /\ loop.pc = "st_read"
    /\ ~Has(loop.key)
    /\ loop' = Finish(loop, Unhandled)
    /\ UNCHANGED <<sessions, issued, client_secret, pool, granted, origin, removed>>
    /\ UNCHANGED svc

\* faulty variant: any answer of userinfo counts, only an exception fails
auth_status_call_any ==
    /\ loop.pc = "st_call"
    /\ \E s \in {200, 401, NetErr} :
         LET p == [loop EXCEPT !.calls = Called(loop, "userinfo", loop.tok, s)] IN
         loop' = IF s # NetErr
                 THEN Finish(p, [BaseResp EXCEPT !.authenticated = TRUE, !.user = loop.user])
                 ELSE [p EXCEPT !.pc = "st_recheck"]
    /\ UNCHANGED <<sessions, issued, client_secret, pool, granted, origin, removed>>
    /\ UNCHANGED svc

\* lines 60-73: the userinfo call; only a 200 returns authenticated
auth_status_call ==
    /\ loop.pc = "st_call"
    /\ \E s \in {200, 401, NetErr} :
         LET p == [loop EXCEPT !.calls = Called(loop, "userinfo", loop.tok, s)] IN
         loop' = IF s = 200
                 THEN Finish(p, [BaseResp EXCEPT !.authenticated = TRUE, !.user = loop.user])
                 ELSE [p EXCEPT !.pc = "st_recheck"]
    /\ UNCHANGED <<sessions, issued, client_secret, pool, granted, origin, removed>>
    /\ UNCHANGED svc

\* line 75
auth_status_recheck ==
    /\ loop.pc = "st_recheck"
    /\ Has(loop.key)
    /\ loop' = [loop EXCEPT !.pc = "st_del"]
    /\ UNCHANGED <<sessions, issued, client_secret, pool, granted, origin, removed>>
    /\ UNCHANGED svc

\* line 75 when the entry has vanished: falls through to line 78
auth_status_recheck_gone ==
    /\ loop.pc = "st_recheck"
    /\ ~Has(loop.key)
    /\ loop' = Finish(loop, BaseResp)
    /\ UNCHANGED <<sessions, issued, client_secret, pool, granted, origin, removed>>
    /\ UNCHANGED svc

\* faulty variant: the session is kept after a failed validation
auth_status_del_keeps ==
    /\ loop.pc = "st_del"
    /\ Has(loop.key)
    /\ loop' = Finish(loop, BaseResp)
    /\ UNCHANGED <<sessions, issued, client_secret, pool, granted, origin, removed>>
    /\ UNCHANGED svc

\* lines 76-78
auth_status_del ==
    /\ loop.pc = "st_del"
    /\ Has(loop.key)
    /\ sessions' = Del(loop.key)
    /\ loop' = Finish(loop, BaseResp)
    /\ removed' = Note(removed, loop.key, "status")
    /\ UNCHANGED <<issued, client_secret, pool, granted, origin>>
    /\ UNCHANGED svc

\* line 76 when the entry has vanished since line 75: KeyError, not caught
auth_status_del_gone ==
    /\ loop.pc = "st_del"
    /\ ~Has(loop.key)
    /\ loop' = Finish(loop, Unhandled)
    /\ UNCHANGED <<sessions, issued, client_secret, pool, granted, origin, removed>>
    /\ UNCHANGED svc

\* ------------------------------------------------------------- /auth/user
\* lines 198-201
get_user_check(room, c) ==
    /\ Admit(room)
    /\ loop.pc = "idle"
    /\ loop' = IF Missing(c)
               THEN Finish(Begin("user", c, "done"), HTTPError(401, "Not authenticated"))
               ELSE Begin("user", c, "us_read")
    /\ UNCHANGED <<sessions, issued, client_secret, pool, granted, origin, removed>>
    /\ UNCHANGED svc

\* lines 203-206
get_user_read ==
    /\ loop.pc = "us_read"
    /\ Has(loop.key)
    /\ loop' = Finish(loop, [BaseResp EXCEPT !.user = sessions[loop.key].user_info])
    /\ UNCHANGED <<sessions, issued, client_secret, pool, granted, origin, removed>>
    /\ UNCHANGED svc

\* line 203 when the entry has vanished since line 200
get_user_read_gone ==
    /\ loop.pc = "us_read"
    /\ ~Has(loop.key)
    /\ loop' = Finish(loop, Unhandled)
    /\ UNCHANGED <<sessions, issued, client_secret, pool, granted, origin, removed>>
    /\ UNCHANGED svc

\* ----------------------------------------------------------- /auth/logout
\* lines 244-260: the JSON body, delete_cookie and the no-cache headers
LogoutResponse(logout_success, keycloak_logout_success) ==
    [BaseResp EXCEPT !.detail = "Logged out successfully",
                     !.session_cleared = logout_success,
                     !.keycloak_logout = keycloak_logout_success,
                     !.delete_cookie = TRUE]

\* faulty variant: a logout without a session is refused
logout_check_strict(room, c) ==
    /\ Admit(room)
    /\ loop.pc = "idle"
    /\ loop' = IF c # NoCookie /\ Has(c)
               THEN Begin("logout", c, "lo_read")
               ELSE Finish(Begin("logout", c, "done"), HTTPError(401, "Not authenticated"))
    /\ UNCHANGED <<sessions, issued, client_secret, pool, granted, origin, removed>>
    /\ UNCHANGED svc

\* lines 210-215
logout_check(room, c) ==
    /\ Admit(room)
    /\ loop.pc = "idle"
    /\ loop' = IF c # NoCookie /\ Has(c)
               THEN Begin("logout", c, "lo_read")
               ELSE Finish(Begin("logout", c, "done"), LogoutResponse(FALSE, FALSE))
    /\ UNCHANGED <<sessions, issued, client_secret, pool, granted, origin, removed>>
    /\ UNCHANGED svc

\* line 216
logout_read ==
    /\ loop.pc = "lo_read"
    /\ Has(loop.key)
    /\ loop' = [loop EXCEPT !.tok = sessions[loop.key].refresh_token, !.pc = "lo_del"]
    /\ UNCHANGED <<sessions, issued, client_secret, pool, granted, origin, removed>>
    /\ UNCHANGED svc

\* line 216 when the entry has vanished since line 215
logout_read_gone ==
    /\ loop.pc = "lo_read"
    /\ ~Has(loop.key)
    /\ loop' = Finish(loop, Unhandled)
    /\ UNCHANGED <<sessions, issued, client_secret, pool, granted, origin, removed>>
    /\ UNCHANGED svc

\* lines 218-221
logout_del ==
    /\ loop.pc = "lo_del"
    /\ Has(loop.key)
    /\ sessions' = Del(loop.key)
    /\ loop' = IF loop.tok # None
               THEN [loop EXCEPT !.pc = "lo_call"]
               ELSE Finish(loop, LogoutResponse(TRUE, FALSE))
    /\ removed' = Note(removed, loop.key, "logout")
    /\ UNCHANGED <<issued, client_secret, pool, granted, origin>>
    /\ UNCHANGED svc

\* line 218 when the entry has vanished since line 216
logout_del_gone ==
    /\ loop.pc = "lo_del"
    /\ ~Has(loop.key)
    /\ loop' = Finish(loop, Unhandled)
    /\ UNCHANGED <<sessions, issued, client_secret, pool, granted, origin, removed>>
    /\ UNCHANGED svc

\* faulty variant: an exception of the provider call is not caught
logout_call_raises ==
    /\ loop.pc = "lo_call"
    /\ \E s \in {204, 400, NetErr} :
         LET p == [loop EXCEPT !.calls = Called(loop, "logout", loop.tok, s)] IN
         loop' = IF s = NetErr THEN Finish(p, Unhandled)
                 ELSE Finish(p, LogoutResponse(TRUE, s = 204))
    /\ UNCHANGED <<sessions, issued, client_secret, pool, granted, origin, removed>>
    /\ UNCHANGED svc

\* lines 222-242: the provider's logout endpoint, every failure swallowed
logout_call ==
    /\ loop.pc = "lo_call"
    /\ \E s \in {204, 400, NetErr} :
         loop' = Finish([loop EXCEPT !.calls = Called(loop, "logout", loop.tok, s)],
                        LogoutResponse(TRUE, s = 204))
    /\ UNCHANGED <<sessions, issued, client_secret, pool, granted, origin, removed>>
    /\ UNCHANGED svc

\* the response has been sent
loop_return ==
    /\ loop.pc = "done"
    /\ loop' = Idle
    /\ UNCHANGED <<sessions, issued, client_secret, pool, granted, origin, removed>>
    /\ UNCHANGED svc

PoolSet(w, p) == [pool EXCEPT ![w] = p]

\* the pool hands a request to a free thread; the threads are interchangeable,
\* so it is the lowest-numbered free one
Free(w) == pool[w].pc = "idle" /\ \A v \in Workers : v < w => pool[v].pc # "idle"

\* --------------------------------------------------------- /auth/callback
\* lines 179-190: redirect to the front end with the session cookie
CallbackSuccess(session_id) ==
    [BaseResp EXCEPT !.status = 302, !.location = "frontend", !.set_cookie = session_id]

\* lines 192-194: every exception raised inside the try, the HTTPException of
\* line 138 included, leaves as a 500
CallbackFailure(why) == HTTPError(500, why)

\* faulty variant: an unknown state is answered with an error
callback_check_rejects(limit, room, w, state) ==
    /\ Admit(room)
    /\ Free(w)
    /\ IF ~Has(state)
       THEN pool' = PoolSet(w, Finish(Begin("callback", state, "done"),
                                HTTPError(400, "Invalid state")))
       ELSE /\ CanIssue(limit)
            /\ pool' = PoolSet(w, Begin("callback", state, "cb_read"))
    /\ UNCHANGED <<sessions, issued, client_secret, loop, granted, origin, removed>>
    /\ UNCHANGED svc

\* lines 112-114
callback_check(limit, room, w, state) ==
    /\ Admit(room)
    /\ Free(w)
    /\ IF ~Has(state)
       THEN pool' = PoolSet(w, Finish(Begin("callback", state, "done"),
                                [BaseResp EXCEPT !.status = 302, !.location = "login"]))
       ELSE /\ CanIssue(limit)
            /\ pool' = PoolSet(w, Begin("callback", state, "cb_read"))
    /\ UNCHANGED <<sessions, issued, client_secret, loop, granted, origin, removed>>
    /\ UNCHANGED svc

\* lines 116-117
callback_read(w) ==
    /\ pool[w].pc = "cb_read"
    /\ Has(pool[w].key)
    /\ pool' = PoolSet(w, [pool[w] EXCEPT !.tok = sessions[pool[w].key].code_verifier,
                                          !.pc = "cb_exchange"])
    /\ UNCHANGED <<sessions, issued, client_secret, loop, granted, origin, removed>>
    /\ UNCHANGED svc

\* line 116 when the entry has vanished since line 112: KeyError outside the try
callback_read_gone(w) ==
    /\ pool[w].pc = "cb_read"
    /\ ~Has(pool[w].key)
    /\ pool' = PoolSet(w, Finish(pool[w], Unhandled))
    /\ UNCHANGED <<sessions, issued, client_secret, loop, granted, origin, removed>>
    /\ UNCHANGED svc

\* lines 128-141: the token exchange
callback_exchange(w) ==
    /\ pool[w].pc = "cb_exchange"
    /\ \E s \in {200, 400, NetErr} :
         LET p == [pool[w] EXCEPT !.calls = Called(pool[w], "token", pool[w].tok, s)] IN
         \/ /\ s = 200
            /\ granted' = granted + 1
            /\ \E t \in TokenResponses(granted + 1) :
                 pool' = PoolSet(w, [p EXCEPT !.tokens = t, !.pc = "cb_userinfo"])
         \/ /\ s = 400
            /\ UNCHANGED granted
            /\ pool' = PoolSet(w, Finish(p,
                         CallbackFailure("Authentication failed: 400: Token exchange failed")))
         \/ /\ s = NetErr
            /\ UNCHANGED granted
            /\ pool' = PoolSet(w, Finish(p,
                         CallbackFailure("Authentication failed: ConnectionError")))
    /\ UNCHANGED <<sessions, issued, client_secret, loop, origin, removed>>
    /\ UNCHANGED svc

\* faulty variant: a failed userinfo call fails the login
callback_userinfo_required(w) ==
    /\ pool[w].pc = "cb_userinfo"
    /\ \E s \in {200, 401, NetErr} :
         LET p == [pool[w] EXCEPT
                     !.calls = Called(pool[w], "userinfo", pool[w].tokens.access_token, s)]
         IN  pool' = PoolSet(w, IF s = 200
                                THEN [p EXCEPT !.user = RealUser, !.pc = "cb_store"]
                                ELSE Finish(p, CallbackFailure(
                                                 "Authentication failed: userinfo")))
    /\ UNCHANGED <<sessions, issued, client_secret, loop, granted, origin, removed>>
    /\ UNCHANGED svc

\* lines 143-166: userinfo with the new access token, placeholder on any failure
callback_userinfo(w) ==
    /\ pool[w].pc = "cb_userinfo"
    /\ \E s \in {200, 401, NetErr} :
         pool' = PoolSet(w, [pool[w] EXCEPT
                     !.calls = Called(pool[w], "userinfo", pool[w].tokens.access_token, s),
                     !.user = IF s = 200 THEN RealUser ELSE Placeholder,
                     !.pc = "cb_store"])
    /\ UNCHANGED <<sessions, issued, client_secret, loop, granted, origin, removed>>
    /\ UNCHANGED svc

\* lines 168-174
callback_store(w) ==
    /\ pool[w].pc = "cb_store"
    /\ LET session_id == issued + 1 IN
       /\ issued' = session_id
       /\ sessions' = Put(session_id, ActiveEntry(pool[w].tokens, pool[w].user))
       /\ origin' = Note(origin, session_id, pool[w].key)
       /\ pool' = PoolSet(w, [pool[w] EXCEPT !.sid = session_id, !.pc = "cb_recheck"])
    /\ UNCHANGED <<client_secret, loop, granted, removed>>
    /\ UNCHANGED svc

\* line 176
callback_recheck(w) ==
    /\ pool[w].pc = "cb_recheck"
    /\ Has(pool[w].key)
    /\ pool' = PoolSet(w, [pool[w] EXCEPT !.pc = "cb_del"])
    /\ UNCHANGED <<sessions, issued, client_secret, loop, granted, origin, removed>>
    /\ UNCHANGED svc

\* line 176 when the state entry has vanished: nothing to delete
callback_recheck_gone(w) ==
    /\ pool[w].pc = "cb_recheck"
    /\ ~Has(pool[w].key)
    /\ pool' = PoolSet(w, Finish(pool[w], CallbackSuccess(pool[w].sid)))
    /\ UNCHANGED <<sessions, issued, client_secret, loop, granted, origin, removed>>
    /\ UNCHANGED svc

\* faulty variant: the state entry is not deleted
callback_del_keeps(w) ==
    /\ pool[w].pc = "cb_del"
    /\ Has(pool[w].key)
    /\ pool' = PoolSet(w, Finish(pool[w], CallbackSuccess(pool[w].sid)))
    /\ UNCHANGED <<sessions, issued, client_secret, loop, granted, origin, removed>>
    /\ UNCHANGED svc

\* lines 177-190
callback_del(w) ==
    /\ pool[w].pc = "cb_del"
    /\ Has(pool[w].key)
    /\ sessions' = Del(pool[w].key)
    /\ pool' = PoolSet(w, Finish(pool[w], CallbackSuccess(pool[w].sid)))
    /\ removed' = Note(removed, pool[w].key, "callback")
    /\ UNCHANGED <<issued, client_secret, loop, granted, origin>>
    /\ UNCHANGED svc

\* line 177 when the state entry has vanished since line 176: KeyError, caught at 192
callback_del_gone(w) ==
    /\ pool[w].pc = "cb_del"
    /\ ~Has(pool[w].key)
    /\ pool' = PoolSet(w, Finish(pool[w], CallbackFailure("Authentication failed: KeyError")))
    /\ UNCHANGED <<sessions, issued, client_secret, loop, granted, origin, removed>>
    /\ UNCHANGED svc

\* ----------------------------------------------------------- /api/reports
\* lines 264-267
download_report_check(room, w, c) ==
    /\ Admit(room)
    /\ Free(w)
    /\ pool' = PoolSet(w, IF Missing(c)
                          THEN Finish(Begin("reports", c, "done"),
                                      HTTPError(401, "Not authenticated"))
                          ELSE Begin("reports", c, "rp_read"))
    /\ UNCHANGED <<sessions, issued, client_secret, loop, granted, origin, removed>>
    /\ UNCHANGED svc

\* faulty variant: the `if not access_token` check is missing
download_report_read_unchecked(w) ==
    /\ pool[w].pc = "rp_read"
    /\ Has(pool[w].key)
    /\ pool' = PoolSet(w, [pool[w] EXCEPT !.tok = sessions[pool[w].key].access_token,
                                          !.pc = "rp_call"])
    /\ UNCHANGED <<sessions, issued, client_secret, loop, granted, origin, removed>>
    /\ UNCHANGED svc

\* lines 269-273
download_report_read(w) ==
    /\ pool[w].pc = "rp_read"
    /\ Has(pool[w].key)
    /\ LET access_token == sessions[pool[w].key].access_token IN
       pool' = PoolSet(w, IF access_token = None
                          THEN Finish(pool[w], HTTPError(401, "Invalid session"))
                          ELSE [pool[w] EXCEPT !.tok = access_token, !.pc = "rp_call"])
    /\ UNCHANGED <<sessions, issued, client_secret, loop, granted, origin, removed>>
    /\ UNCHANGED svc

\* line 269 when the entry has vanished since line 266: KeyError outside the try
download_report_read_gone(w) ==
    /\ pool[w].pc = "rp_read"
    /\ ~Has(pool[w].key)
    /\ pool' = PoolSet(w, Finish(pool[w], Unhandled))
    /\ UNCHANGED <<sessions, issued, client_secret, loop, granted, origin, removed>>
    /\ UNCHANGED svc

\* lines 275-304: the downstream call; the HTTPException of line 285 is raised
\* inside the try and caught at line 302 like any other exception
download_report_call(w) ==
    /\ pool[w].pc = "rp_call"
    /\ \E s \in {200, 401, 404, 503, NetErr} :
         LET p == [pool[w] EXCEPT !.calls = Called(pool[w], "reports", pool[w].tok, s)] IN
         pool' = PoolSet(w, Finish(p,
                   IF s = 200 THEN [BaseResp EXCEPT !.content = "csv"]
                   ELSE IF s = NetErr
                        THEN HTTPError(500, "Report download failed: ConnectionError")
                        ELSE HTTPError(500,
                               "Report download failed: Failed to download report from API")))
    /\ UNCHANGED <<sessions, issued, client_secret, loop, granted, origin, removed>>
    /\ UNCHANGED svc

\* the response has been sent
pool_return(w) ==
    /\ pool[w].pc = "done"
    /\ pool' = PoolSet(w, Idle)
    /\ UNCHANGED <<sessions, issued, client_secret, loop, granted, origin, removed>>
    /\ UNCHANGED svc

\* -------------------------------------------------------------- restart
\* faulty variant: the table survives the restart
restart_persistent ==
    /\ loop' = Idle
    /\ pool' = [w \in Workers |-> Idle]
    /\ removed' = [k \in DOMAIN removed \cup DOMAIN sessions |->
                      IF k \in DOMAIN sessions THEN "restart" ELSE removed[k]]
    /\ UNCHANGED <<sessions, issued, client_secret, granted, origin>>
    /\ UNCHANGED svc

\* line 36 run again by a new process (lines 306-308): the module-level dict
\* starts empty and the requests the old process was handling are gone.  The
\* secrets of the new process repeat none of the old ones.  History: the keys
\* the old table held are noted as lost in the restart.
restart ==
    /\ sessions' = <<>>
    /\ loop' = Idle
    /\ pool' = [w \in Workers |-> Idle]
    /\ removed' = [k \in DOMAIN removed \cup DOMAIN sessions |->
                      IF k \in DOMAIN sessions THEN "restart" ELSE removed[k]]
    /\ UNCHANGED <<issued, client_secret, granted, origin>>
    /\ UNCHANGED svc

\* str.startswith
startswith(s, prefix) ==
    Len(s) >= Len(prefix) /\ SubSeq(s, 1, Len(prefix)) = prefix

\* faulty variant: the username claim is not looked at
VerifyFailure_any_username(authorization, t, jwks) ==
    IF authorization.scheme # "Bearer"
    THEN "Missing or invalid authorization header"
    ELSE LET token == authorization.token IN
         IF ~token.wellformed THEN "Invalid token"
         ELSE IF ~jwks \/ ~token.kid THEN "Token verification failed"
         ELSE IF token.alg # "RS256" \/ ~token.signed THEN "Invalid token"
         ELSE IF token.exp # NoExp /\ token.exp <= t THEN "Token expired"
         ELSE ""

\* lines 36-83: the detail of the 401 that verify_token raises for this header
\* at clock t, "" when it returns the identity.  jwks: the provider's key set
\* could be fetched.  A token that does not parse is a DecodeError; a missing
\* key is a PyJWKClientError, caught by `except Exception`; jwt.decode checks
\* the algorithm, then the signature, then exp; the HTTPException for a
\* missing username is raised inside the try and caught by `except Exception`.
VerifyFailure(authorization, t, jwks) ==
    IF authorization.scheme # "Bearer"
    THEN "Missing or invalid authorization header"
    ELSE LET token == authorization.token IN
         IF ~token.wellformed THEN "Invalid token"
         ELSE IF ~jwks \/ ~token.kid THEN "Token verification failed"
         ELSE IF token.alg # "RS256" \/ ~token.signed THEN "Invalid token"
         ELSE IF token.exp # NoExp /\ token.exp <= t THEN "Token expired"
         ELSE IF token.preferred_username \in {NoClaim, <<>>}
              THEN "Token verification failed"
         ELSE ""

\* faulty variant: a header that was let in by the request before is let in
\* again without being verified
verify_token_cached(authorization) ==
    /\ api.pc \in {"idle", "done"}
    /\ \E jwks \in BOOLEAN :
         LET why == IF api.header = authorization /\ api.auth.ok THEN ""
                    ELSE VerifyFailure(authorization, now, jwks)
             request == [ApiIdle EXCEPT !.header = authorization,
                            !.again = (api.header = authorization /\ api.auth.ok)]
         IN  api' = IF why # ""
                    THEN [request EXCEPT !.pc = "done", !.resp = ApiError(401, why)]
                    ELSE [request EXCEPT !.pc = "handler",
                                         !.auth = Identity(authorization.token)]
    /\ UNCHANGED <<now, table, etl>>
    /\ UNCHANGED gw

\* lines 36-83, run by FastAPI before the handler on every request
verify_token(authorization) ==
    /\ api.pc \in {"idle", "done"}
    /\ \E jwks \in BOOLEAN :
         LET why == VerifyFailure(authorization, now, jwks)
             request == [ApiIdle EXCEPT !.header = authorization,
                            !.again = (api.header = authorization /\ api.auth.ok)]
         IN  api' = IF why # ""
                    THEN [request EXCEPT !.pc = "done", !.resp = ApiError(401, why)]
                    ELSE [request EXCEPT !.pc = "handler",
                                         !.auth = Identity(authorization.token)]
    /\ UNCHANGED <<now, table, etl>>
    /\ UNCHANGED gw

\* lines 85-93
get_user_mapping ==
    (Numbered(user, 1) :> "CLI001") @@ (Numbered(user, 2) :> "CLI002")
        @@ (Numbered(prothetic, 1) :> "CLI003") @@ (Numbered(prothetic, 2) :> "CLI004")
        @@ (Numbered(prothetic, 3) :> "CLI005") @@ (Numbered(admin, 1) :> "CLI006")

\* faulty variant: a username outside the table gets the default at once
get_client_id_for_user_exact(username) ==
    IF username \in DOMAIN get_user_mapping THEN get_user_mapping[username]
    ELSE "CLI006"

\* lines 95-110
get_client_id_for_user(username) ==
    IF username \in DOMAIN get_user_mapping THEN get_user_mapping[username]
    ELSE IF startswith(username, prothetic) THEN "CLI003"
    ELSE IF startswith(username, user) THEN "CLI001"
    ELSE "CLI006"

\* lines 132-150: the result sets the query can return: the rows of the client,
\* latest date first, rows of one date in any order
execute(client_id) ==
    LET found == {r \in table : r.client_id = client_id}
        n == Cardinality(found)
    IN  {rs \in [1..n -> found] :
            /\ \A i, j \in 1..n : i # j => rs[i] # rs[j]
            /\ \A i, j \in 1..n : i < j => rs[i].date >= rs[j].date}

\* faulty variant: the battery reading is left out of the signals
signals_without_battery(row) ==
    << <<"avg_joint_angle", row.avg_joint_angle>>,
       <<"max_joint_angle", row.max_joint_angle>>,
       <<"min_joint_angle", row.min_joint_angle>>,
       <<"avg_pressure", row.avg_pressure>> >>

\* lines 182-188
signals(row) ==
    << <<"avg_joint_angle", row.avg_joint_angle>>,
       <<"max_joint_angle", row.max_joint_angle>>,
       <<"min_joint_angle", row.min_joint_angle>>,
       <<"avg_pressure", row.avg_pressure>>,
       <<"avg_battery", row.avg_battery>> >>

\* faulty variant: the battery column repeats the signal's value
records_battery_from_signal(row, username) ==
    [i \in 1..Len(signals(row)) |->
        [user_id |-> row.client_id,
         user_name |-> username,
         user_email |-> username \o <<"@example.com">>,
         prosthesis_type |-> "arm_prosthesis",
         signal_type |-> signals(row)[i][1],
         signal_value |-> signals(row)[i][2],
         timestamp |-> [date |-> row.date, time |-> "00:00:00"],
         usage_hours |-> 24,
         battery_level |-> signals(row)[i][2],
         created_date |-> row.date]]

\* lines 190-202: the records of one row.  The tokens of the model carry no
\* email, given_name or family_name, so the name is the username and the
\* e-mail is built from it.
records(row, username) ==
    [i \in 1..Len(signals(row)) |->
        [user_id |-> row.client_id,
         user_name |-> username,
         user_email |-> username \o <<"@example.com">>,
         prosthesis_type |-> "arm_prosthesis",
         signal_type |-> signals(row)[i][1],
         signal_value |-> signals(row)[i][2],
         timestamp |-> [date |-> row.date, time |-> "00:00:00"],
         usage_hours |-> 24,
         battery_level |-> row.avg_battery,
         created_date |-> row.date]]

\* lines 178-202: the loop over the result set
RECURSIVE transformed_data(_, _)
transformed_data(results, username) ==
    IF Len(results) = 0 THEN <<>>
    ELSE records(Head(results), username) \o transformed_data(Tail(results), username)

\* date.isoformat() and datetime.isoformat(), as the text's parts
IsoDate(date) == <<date>>
IsoDateTime(timestamp) == <<timestamp.date, "T", timestamp.time>>

\* lines 207-211
Columns ==
    <<"User ID", "User Name", "Email", "Prosthesis Type", "Signal Type",
      "Signal Value", "Timestamp", "Usage Hours", "Battery Level", "Created Date">>

\* lines 214-225
writerow(row) ==
    <<row.user_id, row.user_name, row.user_email, row.prosthesis_type,
      row.signal_type, row.signal_value, IsoDateTime(row.timestamp),
      row.usage_hours, row.battery_level, IsoDate(row.created_date)>>

\* lines 204-227: the header line, then one line per record
csv_content(data) == <<Columns>> \o [i \in 1..Len(data) |-> writerow(data[i])]

\* faulty variant: the 404 raised inside the try is caught with the database
\* errors
report_download_report_blanket ==
    /\ api.pc = "handler"
    /\ LET username == api.auth.preferred_username
           client_id == get_client_id_for_user(username)
       IN  IF username \in {NoClaim, <<>>}
           THEN api' = [api EXCEPT !.pc = "done", !.resp = ApiError(400, "User not found")]
           ELSE \/ api' = [api EXCEPT !.pc = "done", !.client_id = client_id,
                              !.raised = TRUE,
                              !.resp = ApiError(500, "Database temporarily unavailable")]
                \/ \E results \in execute(client_id) :
                     api' = [api EXCEPT !.pc = "done", !.client_id = client_id,
                               !.results = results,
                               !.loading = (etl.pc \in Inserting),
                               !.resp =
                                 IF Len(results) = 0
                                 THEN ApiError(500, "Database temporarily unavailable")
                                 ELSE [ApiResp EXCEPT
                                          !.media_type = "text/csv",
                                          !.lines = csv_content(
                                                      transformed_data(results, username))]]
    /\ UNCHANGED <<now, table, etl>>
    /\ UNCHANGED gw

\* lines 112-237: the handler; the query either raises or returns a result set
report_download_report ==
    /\ api.pc = "handler"
    /\ LET username == api.auth.preferred_username
           client_id == get_client_id_for_user(username)
       IN  IF username \in {NoClaim, <<>>}
           THEN api' = [api EXCEPT !.pc = "done", !.resp = ApiError(400, "User not found")]
           ELSE \/ api' = [api EXCEPT !.pc = "done", !.client_id = client_id,
                              !.raised = TRUE,
                              !.resp = ApiError(500, "Database temporarily unavailable")]
                \/ \E results \in execute(client_id) :
                     api' = [api EXCEPT !.pc = "done", !.client_id = client_id,
                               !.results = results,
                               !.loading = (etl.pc \in Inserting),
                               !.resp =
                                 IF Len(results) = 0
                                 THEN [ApiError(404, "No report data available for your account")
                                          EXCEPT !.client_id = client_id,
                                                 !.username = username]
                                 ELSE [ApiResp EXCEPT
                                          !.media_type = "text/csv",
                                          !.lines = csv_content(
                                                      transformed_data(results, username))]]
    /\ UNCHANGED <<now, table, etl>>
    /\ UNCHANGED gw

\* time passes
Tick ==
    /\ now < MaxTime
    /\ now' = now + 1
    /\ UNCHANGED <<table, api, etl>>
    /\ UNCHANGED gw

\* ------------------------------------------------------- the ETL pipeline
\* default_args['retries']: the scheduler runs a failed task once more
Retries == 1

\* the most readings the telemetry database holds
MaxReadings == 2

\* lines 77-95: the clients of the CRM database, as extract_crm_data returns
\* them; the empty frame is also what it returns when the database fails
CrmClients == {"CLI001", "CLI004"}
extract_crm_data == SUBSET CrmClients

\* the activities, in the order x.mode() sorts them
Activities == <<"sitting", "walking">>

\* a row of the telemetry table; the pressure and the battery level follow
\* the date, so that every mean is a whole number.  One client is in both
\* databases, one in the CRM alone and one in the telemetry alone
Reading(client_id, date, joint_angle) ==
    [client_id |-> client_id, date |-> date, joint_angle |-> joint_angle,
     pressure_sensor |-> 20 + date, battery_level |-> 70 + date,
     activity_type |-> IF joint_angle < 40 THEN "sitting" ELSE "walking"]
Readings ==
    {Reading(c, d, a) : c \in {"CLI001", "CLI007"}, d \in 1..MaxDate,
                        a \in {30, 50}}

\* lines 97-122: the frames extract_telemetry_data can return; the empty
\* frame is also what it returns when the database fails
extract_telemetry_data == {t \in SUBSET Readings : Cardinality(t) <= MaxReadings}

\* the aggregates of lines 143-148 over the group g of one (client_id, date)
RECURSIVE SumOf(_, _)
SumOf(column, g) ==
    IF g = {} THEN 0
    ELSE LET r == CHOOSE r \in g : TRUE
         IN  r[column] + SumOf(column, g \ {r})
mean(column, g) == SumOf(column, g) \div Cardinality(g)
max(column, g) == CHOOSE v \in {r[column] : r \in g} : \A r \in g : r[column] <= v
min(column, g) == CHOOSE v \in {r[column] : r \in g} : \A r \in g : r[column] >= v
\* x.mode()[0]: the most frequent value, the first in sorted order on a tie
mode(column, g) ==
    LET count(i) == Cardinality({r \in g : r[column] = Activities[i]})
        best == CHOOSE i \in 1..Len(Activities) :
                    /\ \A j \in 1..Len(Activities) : count(j) <= count(i)
                    /\ \A j \in 1..(i - 1) : count(j) < count(i)
    IN  Activities[best]

\* lines 124-160: the inner merge on client_id, then one record per
\* (client_id, date) group
transform_data(crm_data, telemetry_data) ==
    IF crm_data = {} \/ telemetry_data = {} THEN {}
    ELSE LET merged_df == {r \in telemetry_data : r.client_id \in crm_data}
             keys == {<<r.client_id, r.date>> : r \in merged_df}
             group(k) == {r \in merged_df : r.client_id = k[1] /\ r.date = k[2]}
         IN  {[client_id |-> k[1], date |-> k[2],
               avg_joint_angle |-> mean("joint_angle", group(k)),
               max_joint_angle |-> max("joint_angle", group(k)),
               min_joint_angle |-> min("joint_angle", group(k)),
               avg_pressure |-> mean("pressure_sensor", group(k)),
               avg_battery |-> mean("battery_level", group(k)),
               most_common_activity |-> mode("activity_type", group(k))] : k \in keys}

\* lines 183-194: the tuples handed to INSERT, in the order of the columns
data_to_insert(transformed_data_) ==
    {<<record.client_id, record.date, record.avg_joint_angle,
       record.max_joint_angle, record.min_joint_angle, record.avg_pressure,
       record.avg_battery, record.most_common_activity>> :
        record \in transformed_data_}

\* lines 21-31: INSERT ... VALUES fills the columns of the table in order
inserted(tuples) ==
    {[client_id |-> t[1], date |-> t[2], avg_joint_angle |-> t[3],
      max_joint_angle |-> t[4], min_joint_angle |-> t[5], avg_pressure |-> t[6],
      avg_battery |-> t[7], most_common_activity |-> t[8]] : t \in tuples}

\* lines 268-281: a run of the DAG extracts both sources and transforms them;
\* the load task is next
transform_task ==
    /\ etl.pc = "idle"
    /\ \E crm_data \in extract_crm_data, telemetry_data \in extract_telemetry_data :
         etl' = [EtlIdle EXCEPT !.pc = "load", !.tries = 1,
                    !.transformed_data = transform_data(crm_data, telemetry_data)]
    /\ UNCHANGED <<now, table, api>>
    /\ UNCHANGED gw

\* lines 162-170: nothing to load
load_skip ==
    /\ etl.pc = "load"
    /\ etl.transformed_data = {}
    /\ etl' = [etl EXCEPT !.pc = "done"]
    /\ UNCHANGED <<now, table, api>>
    /\ UNCHANGED gw

\* lines 172-194: the TRUNCATE empties the table, or raises and leaves it;
\* data_to_insert is assigned only after it
load_truncate ==
    /\ etl.pc = "load"
    /\ etl.transformed_data # {}
    /\ \/ /\ table' = {}
          /\ etl' = [etl EXCEPT !.pc = "insert", !.bound = TRUE,
                        !.before = {r.client_id : r \in table}]
       \/ /\ table' = table
          /\ etl' = [etl EXCEPT !.pc = "fallback",
                        !.before = {r.client_id : r \in table}]
    /\ UNCHANGED <<now, api>>
    /\ UNCHANGED gw

\* lines 196-201: the INSERT adds the rows, or raises, the rows written or not
load_insert ==
    /\ etl.pc = "insert"
    /\ LET rows == inserted(data_to_insert(etl.transformed_data))
       IN  \/ /\ table' = table \cup rows
              /\ etl' = [etl EXCEPT !.pc = "done"]
           \/ /\ table' \in {table, table \cup rows}
              /\ etl' = [etl EXCEPT !.pc = "fallback"]
    /\ UNCHANGED <<now, api>>
    /\ UNCHANGED gw

\* lines 203-214: the second TRUNCATE; `if data_to_insert` raises
\* UnboundLocalError when the first TRUNCATE was the statement that failed
load_fallback_truncate ==
    /\ etl.pc = "fallback"
    /\ \/ /\ table' = {}
          /\ etl' = [etl EXCEPT !.pc = IF etl.bound THEN "fallback_insert"
                                       ELSE "failed"]
       \/ /\ table' = table
          /\ etl' = [etl EXCEPT !.pc = "failed"]
    /\ UNCHANGED <<now, api>>
    /\ UNCHANGED gw

\* lines 214-220: the second INSERT; its exception is raised again
load_fallback_insert ==
    /\ etl.pc = "fallback_insert"
    /\ LET rows == inserted(data_to_insert(etl.transformed_data))
       IN  \/ /\ table' = table \cup rows
              /\ etl' = [etl EXCEPT !.pc = "done"]
           \/ /\ table' \in {table, table \cup rows}
              /\ etl' = [etl EXCEPT !.pc = "failed"]
    /\ UNCHANGED <<now, api>>
    /\ UNCHANGED gw

\* lines 246-252: the scheduler runs the failed load once more, or gives the
\* run up
load_retry ==
    /\ etl.pc = "failed"
    /\ etl' = IF etl.tries <= Retries
              THEN [etl EXCEPT !.pc = "load", !.tries = etl.tries + 1,
                               !.bound = FALSE]
              ELSE EtlIdle
    /\ UNCHANGED <<now, table, api>>
    /\ UNCHANGED gw

\* lines 222-244: verify_data_loaded reads the table and ends the run
verify_data_loaded ==
    /\ etl.pc = "done"
    /\ etl' = EtlIdle
    /\ UNCHANGED <<now, table, api>>
    /\ UNCHANGED gw

\* ---------------------------------------------------------- specifications
\* a request arrives
Arrive(limit, room) ==
    \/ login(limit, room)
    \/ \E c \in Cookies : auth_status_check(room, c)
    \/ \E c \in Cookies : get_user_check(room, c)
    \/ \E c \in Cookies : logout_check(room, c)
    \/ \E w \in Workers, state \in Inputs : callback_check(limit, room, w, state)
    \/ \E w \in Workers, c \in Cookies : download_report_check(room, w, c)

\* a handler takes its next step and finds the table as it last saw it
Step ==
    \/ auth_status_read
    \/ auth_status_call
    \/ auth_status_recheck
    \/ auth_status_del
    \/ get_user_read
    \/ logout_read
    \/ logout_del
    \/ logout_call
    \/ loop_return
    \/ \E w \in Workers : callback_read(w)
    \/ \E w \in Workers : callback_exchange(w)
    \/ \E w \in Workers : callback_userinfo(w)
    \/ \E w \in Workers : callback_store(w)
    \/ \E w \in Workers : callback_recheck(w)
    \/ \E w \in Workers : callback_del(w)
    \/ \E w \in Workers : download_report_read(w)
    \/ \E w \in Workers : download_report_call(w)
    \/ \E w \in Workers : pool_return(w)

\* a handler takes its next step after another request removed its entry
Raced ==
    \/ auth_status_read_gone
    \/ auth_status_recheck_gone
    \/ auth_status_del_gone
    \/ get_user_read_gone
    \/ logout_read_gone
    \/ logout_del_gone
    \/ \E w \in Workers : callback_read_gone(w)
    \/ \E w \in Workers : callback_recheck_gone(w)
    \/ \E w \in Workers : callback_del_gone(w)
    \/ \E w \in Workers : download_report_read_gone(w)

Next == Arrive(MaxRaceKeys, MaxInFlight) \/ Step \/ Raced

\* the gateway under concurrent requests
Spec == Init /\ [][Next]_vars

\* the gateway when every request is answered before the next one arrives
SeqNext == Arrive(MaxKeys, 1) \/ Step

SeqSpec == Init /\ [][SeqNext]_vars

\* the gateway, one request at a time, restarted at any moment
RestartNext == Arrive(MaxKeys, 1) \/ Step \/ restart

RestartSpec == Init /\ [][RestartNext]_vars

\* the Report Generator over a table of any content, the gateway left out
ReportInit ==
    /\ sessions = <<>>
    /\ issued = 0
    /\ client_secret = TRUE
    /\ loop = Idle
    /\ pool = [w \in Workers |-> Idle]
    /\ granted = 0
    /\ origin = <<>>
    /\ removed = <<>>
    /\ now = 0
    /\ table \in Tables
    /\ api = ApiIdle
    /\ etl = EtlIdle

ReportNext ==
    \/ \E authorization \in Headers : verify_token(authorization)
    \/ report_download_report
    \/ Tick

ReportSpec == ReportInit /\ [][ReportNext]_vars

\* the requests the Report Generator gets while the pipeline runs: the
\* token of the user whose scope key is in both databases
EtlHeaders ==
    [scheme : {"Bearer"},
     token : {t \in IssuedTokens : t.exp = NoExp
                 /\ t.preferred_username = Numbered(user, 1)}]

\* the table as init_clickhouse_database creates it, no run yet
EtlInit ==
    /\ sessions = <<>>
    /\ issued = 0
    /\ client_secret = TRUE
    /\ loop = Idle
    /\ pool = [w \in Workers |-> Idle]
    /\ granted = 0
    /\ origin = <<>>
    /\ removed = <<>>
    /\ now = 0
    /\ table = {}
    /\ api = ApiIdle
    /\ etl = EtlIdle

\* the runs of the DAG, one after the other, and the Report Generator
EtlNext ==
    \/ transform_task
    \/ load_skip
    \/ load_truncate
    \/ load_insert
    \/ load_fallback_truncate
    \/ load_fallback_insert
    \/ load_retry
    \/ verify_data_loaded
    \/ \E authorization \in EtlHeaders : verify_token(authorization)
    \/ report_download_report

EtlSpec == EtlInit /\ [][EtlNext]_vars

\* ------------------------------------------------------------------ claims
\* the requests of each handler
Callbacks == {w \in Workers : pool[w].op = "callback"}
Reports == {w \in Workers : pool[w].op = "reports"}
\* the outbound calls of a request, by endpoint
CallsTo(p, ep) == {i \in 1..Len(p.calls) : p.calls[i].ep = ep}
\* states whose pending entry a completed callback has deleted
ConsumedStates == {k \in DOMAIN removed : removed[k] = "callback"}
\* a request of handler op arrives at process p (before) / q (after) with key k
Arrives(p, q, op) == p.pc = "idle" /\ q.pc # "idle" /\ q.op = op

\* C1 (state): a callback that found a pending entry and whose exchange was
\* accepted ends with the redirect to the front end, the cookie set to its
\* handle, the handle in the table holding the exchanged access token, and the
\* pending entry gone.
C1_Completed ==
    \A w \in Callbacks :
        LET p == pool[w] IN
        (p.pc = "done" /\ p.found /\ p.tok # None
            /\ p.calls # <<>> /\ p.calls[1].status = 200)
        => /\ p.resp = CallbackSuccess(p.sid)
           /\ p.sid # NoCookie /\ p.sid # p.key
           /\ Has(p.sid)
           /\ sessions[p.sid].status = "active"
           /\ sessions[p.sid].access_token = p.tokens.access_token
           /\ sessions[p.sid].access_token = AccessToken(granted)
           /\ origin[p.sid] = p.key
           /\ ~Has(p.key)

\* C1 (steps): the store step adds exactly one entry under a handle that was
\* never in the table; the delete step removes exactly the state entry; no
\* other step of a callback touches the table.
C1_Steps ==
    \A w \in Workers :
        (pool[w].op = "callback" /\ pool'[w] # pool[w]) =>
            \/ /\ pool[w].pc = "cb_store"
               /\ pool'[w].sid \notin 1..issued
               /\ pool'[w].sid \notin DOMAIN sessions
               /\ pool'[w].sid \notin DOMAIN removed
               /\ sessions' = Put(pool'[w].sid, ActiveEntry(pool[w].tokens, pool[w].user))
            \/ /\ pool[w].pc = "cb_del"
               /\ sessions' = Del(pool[w].key)
            \/ /\ pool[w].pc \notin {"cb_store", "cb_del"}
               /\ sessions' = sessions

\* C1 (replay): a callback arriving with a state that a completed callback has
\* consumed is redirected to login at once, without a call and without a session.
C1_Replay ==
    \A w \in Workers :
        (Arrives(pool[w], pool'[w], "callback") /\ pool'[w].key \in ConsumedStates) =>
            /\ pool'[w].pc = "done"
            /\ pool'[w].resp = [BaseResp EXCEPT !.status = 302, !.location = "login"]
            /\ pool'[w].calls = <<>>
            /\ sessions' = sessions
            /\ issued' = issued

\* C1: an accepted callback on a pending state adds exactly one active session
\* under a fresh handle holding the exchanged access token, sets the cookie and
\* removes the pending entry; a second callback with the same state is
\* redirected to login and creates no session.
C1_Theorem == []C1_Completed /\ [][C1_Steps /\ C1_Replay]_vars

\* C1 witness: a replayed callback has been redirected to login while the
\* session minted by the first callback on that state is in the table.
C1_Witness ==
    \E w \in Callbacks :
        /\ pool[w].pc = "done"
        /\ pool[w].resp.location = "login"
        /\ pool[w].key \in ConsumedStates
        /\ \E k \in DOMAIN sessions :
             k \in DOMAIN origin /\ origin[k] = pool[w].key /\ sessions[k].status = "active"

\* C2: a pending entry is consumed at most once: of the callbacks in flight
\* with the same state at most one has performed the token exchange, and at
\* most one session is ever minted from one state.
C2_ConsumedOnce ==
    \A state \in 1..issued :
        /\ Cardinality({w \in Callbacks : pool[w].key = state /\ pool[w].pc # "done"
                           /\ CallsTo(pool[w], "token") # {}}) <= 1
        /\ Cardinality({k \in DOMAIN origin : origin[k] = state}) <= 1

\* keys whose entry /auth/status deleted, and keys whose entry /auth/logout deleted
Revoked == {k \in DOMAIN removed : removed[k] = "status"}
Cleared == {k \in DOMAIN removed : removed[k] = "logout"}

\* C3 (state): authenticated:true is returned only with the cookie's session in
\* the table and one userinfo call, for that session's stored access token,
\* answered 200 in this request.
C3_LiveCheck ==
    (loop.op = "status" /\ loop.pc = "done" /\ loop.resp.authenticated) =>
        /\ Has(loop.key)
        /\ sessions[loop.key].access_token # None
        /\ loop.calls = <<Call("userinfo", sessions[loop.key].access_token, 200)>>
        /\ loop.resp.user = sessions[loop.key].user_info

\* C3 (steps): no step of a status check that is on its way to, or ends in,
\* authenticated:true changes the table.
C3_Unchanged ==
    (loop' # loop /\ loop'.op = "status"
        /\ (loop'.pc \in {"st_read", "st_call"} \/ loop'.resp.authenticated))
    => sessions' = sessions

\* C3: /auth/status answers authenticated:true only after a 200 from userinfo
\* for the stored access token of the cookie's session, never on the mere
\* presence of the record, and a successful check leaves the table unchanged.
C3_Theorem == []C3_LiveCheck /\ [][C3_Unchanged]_vars

\* C3 witness: a status check has answered authenticated:true.
C3_Witness ==
    loop.op = "status" /\ loop.pc = "done" /\ loop.resp.authenticated /\ Has(loop.key)

\* C4 (state): a status check whose userinfo call failed has deleted the
\* session and answers authenticated:false as a normal response.
C4_Failed ==
    (loop.op = "status" /\ loop.pc = "done"
        /\ loop.calls # <<>> /\ loop.calls[1].status # 200)
    => /\ ~Has(loop.key)
       /\ loop.key \in Revoked
       /\ loop.resp = BaseResp

\* C4 (later calls): a status check arriving with a cookie whose session
\* /auth/status has deleted answers authenticated:false at once, with no error
\* and no call to the provider.
C4_Later ==
    (Arrives(loop, loop', "status") /\ loop'.key \in Revoked) =>
        /\ loop'.pc = "done"
        /\ loop'.resp = BaseResp
        /\ loop'.calls = <<>>
        /\ sessions' = sessions

\* C4: failed live validation deletes the session and reports
\* authenticated:false; so does every later status check with the same cookie,
\* without an error and without contacting the provider.
C4_Theorem == []C4_Failed /\ [][C4_Later]_vars

\* C4 witness: a later status check with the cookie of a session that a failed
\* validation deleted has been answered.
C4_Witness ==
    /\ loop.op = "status" /\ loop.pc = "done" /\ ~loop.found
    /\ loop.key \in Revoked /\ loop.key \in DOMAIN origin

\* C5 (forwarding): a request that has called the Report Generator named an
\* active session with an access token, and called once with exactly that token,
\* which no other entry of the table holds.
C5_Forward ==
    \A w \in Reports :
        LET p == pool[w] IN
        (p.pc = "rp_call" \/ p.calls # <<>>) =>
            /\ Has(p.key)
            /\ sessions[p.key].status = "active"
            /\ sessions[p.key].access_token # None
            /\ p.tok = sessions[p.key].access_token
            /\ \A k \in DOMAIN sessions \ {p.key} : sessions[k].access_token # p.tok
            /\ p.calls # <<>> => p.calls = <<Call("reports", p.tok, p.calls[1].status)>>

\* C5 (refusal): with no cookie, an unknown cookie or an entry without an access
\* token the answer is 401 and no downstream call was made.
C5_Refused ==
    \A w \in Reports :
        LET p == pool[w] IN
        (p.pc = "done" /\ (Missing(p.key) \/ sessions[p.key].access_token = None)) =>
            /\ p.resp.status = 401
            /\ p.calls = <<>>

\* C5 (frame): no step of /api/reports changes the table.
C5_Frame ==
    \A w \in Workers :
        (pool'[w] # pool[w] /\ pool'[w].op = "reports") => sessions' = sessions

\* C5: /api/reports contacts the Report Generator only for an active session
\* with a stored access token and forwards exactly that token; otherwise it
\* answers 401 without a downstream call; it never changes the table.
C5_Theorem == []C5_Forward /\ []C5_Refused /\ [][C5_Frame]_vars

\* C5 witness: a report has been fetched with one session's token while another
\* active session, holding another token, is in the table.
C5_Witness ==
    \E w \in Reports :
        /\ pool[w].pc = "done" /\ pool[w].resp.status = 200
        /\ pool[w].calls # <<>>
        /\ \E k \in DOMAIN sessions :
             k # pool[w].key /\ sessions[k].status = "active"

\* C6: a non-200 status s from the Report Generator is the status of the
\* gateway's response.
C6_PassThrough ==
    \A w \in Reports :
        LET p == pool[w] IN
        (p.pc = "done" /\ p.calls # <<>> /\ p.calls[1].status \notin {200, NetErr}) =>
            /\ p.resp.status = p.calls[1].status
            /\ p.resp.status # 200

\* C7: a rejected token exchange ends the callback with 400 'Token exchange
\* failed', no session, no cookie, and exactly one exchange request.
C7_ExchangeRejected ==
    \A w \in Callbacks :
        LET p == pool[w] IN
        (p.pc = "done" /\ p.calls # <<>> /\ p.calls[1].status \notin {200, NetErr}) =>
            /\ p.resp = HTTPError(400, "Token exchange failed")
            /\ p.sid = NoCookie
            /\ p.resp.set_cookie = NoCookie
            /\ Len(p.calls) = 1

\* C8: a callback whose state is not a key of the table is redirected to login
\* with no error status, no token exchange and no change to the table.
C8_Theorem ==
    [][\A w \in Workers :
        (Arrives(pool[w], pool'[w], "callback") /\ ~Has(pool'[w].key)) =>
            /\ pool'[w].pc = "done"
            /\ pool'[w].resp = [BaseResp EXCEPT !.status = 302, !.location = "login"]
            /\ pool'[w].calls = <<>>
            /\ sessions' = sessions
            /\ issued' = issued]_vars

\* C8 witness: a callback with a state the gateway never generated has been
\* redirected to login.
C8_Witness ==
    \E w \in Callbacks :
        /\ pool[w].pc = "done" /\ pool[w].key = Forged
        /\ pool[w].resp.location = "login"

\* C9 (state): every logout answers 200 and clears the cookie; it reports
\* session_cleared exactly when it found the session, and then the session is
\* gone.
C9_Answer ==
    (loop.op = "logout" /\ loop.pc = "done") =>
        /\ loop.resp.status = 200
        /\ loop.resp.delete_cookie
        /\ loop.resp.session_cleared = loop.found
        /\ loop.found => (~Has(loop.key) /\ loop.key \in Cleared)

\* C9 (steps): a logout finds the session exactly when the cookie names an
\* entry; one arriving with a cookie that a logout has cleared answers
\* session_cleared:false at once and leaves the table unchanged.
C9_Again ==
    Arrives(loop, loop', "logout") =>
        /\ loop'.found = (loop'.key # NoCookie /\ Has(loop'.key))
        /\ loop'.key \in Cleared =>
            /\ loop'.pc = "done"
            /\ loop'.resp = LogoutResponse(FALSE, FALSE)
            /\ sessions' = sessions

\* C9: the first logout that finds the session removes it and reports
\* session_cleared:true; every later logout with that cookie is a normal
\* response with session_cleared:false that leaves the table unchanged; every
\* logout response clears the cookie.
C9_Theorem == []C9_Answer /\ [][C9_Again]_vars

\* C9 witness: a second logout with an already cleared cookie has been answered.
C9_Witness ==
    /\ loop.op = "logout" /\ loop.pc = "done" /\ ~loop.found
    /\ loop.key \in Cleared /\ ~loop.resp.session_cleared

\* C10 (state): the session is gone before the provider's logout endpoint is
\* called; whatever that call does, a logout that found the session answers 200
\* with session_cleared; the call is made only with a refresh token, and
\* keycloak_logout is true exactly when it was made and answered 204.
C10_Local ==
    loop.op = "logout" =>
        /\ loop.pc = "lo_call" => (~Has(loop.key) /\ loop.tok # None)
        /\ loop.calls # <<>> =>
             /\ loop.found /\ loop.tok # None /\ ~Has(loop.key)
             /\ loop.calls = <<Call("logout", loop.tok, loop.calls[1].status)>>
        /\ loop.pc = "done" =>
             /\ loop.resp.status = 200
             /\ loop.resp.session_cleared = loop.found
             /\ loop.found => ~Has(loop.key)
             /\ (loop.found /\ loop.tok # None) => loop.calls # <<>>
             /\ loop.resp.keycloak_logout =
                   (loop.calls # <<>> /\ loop.calls[1].status = 204)

\* C10 (steps): after the delete the handler goes on to the provider exactly
\* when the deleted session held a refresh token.
C10_OnlyWithRefresh ==
    (loop.op = "logout" /\ loop.pc = "lo_del" /\ loop' # loop) =>
        /\ ~Has(loop.key)'
        /\ (loop'.pc = "lo_call") = (sessions[loop.key].refresh_token # None)
        /\ loop'.pc # "lo_call" => loop'.resp = LogoutResponse(TRUE, FALSE)

\* C10: logout deletes the local session before and regardless of the
\* provider's logout call, which is made only when the session held a refresh
\* token; keycloak_logout is true only when that call returned 204.
C10_Theorem == []C10_Local /\ [][C10_OnlyWithRefresh]_vars

\* C10 witness: a logout whose provider call raised has answered
\* session_cleared:true, keycloak_logout:false.
C10_Witness ==
    /\ loop.op = "logout" /\ loop.pc = "done"
    /\ loop.calls # <<>> /\ loop.calls[1].status = NetErr
    /\ loop.resp.session_cleared /\ ~loop.resp.keycloak_logout /\ ~Has(loop.key)

\* C11: an active session is removed or altered only by the delete step of a
\* /auth/logout for its handle, or by the delete step of a /auth/status for its
\* handle whose userinfo call failed; login, callback, /auth/user and
\* /api/reports leave every existing active session as it is.
C11_OnlyLogoutOrFailedStatus ==
    [][\A k \in DOMAIN sessions :
        (sessions[k].status = "active"
            /\ (k \notin DOMAIN sessions' \/ sessions'[k] # sessions[k]))
        => \/ loop.op = "logout" /\ loop.key = k /\ loop.pc = "lo_del"
           \/ /\ loop.op = "status" /\ loop.key = k /\ loop.pc = "st_del"
              /\ loop.calls # <<>> /\ loop.calls[1].status # 200]_vars

\* ------------------------------------------- claims: the Report Generator
\* a request arrives at the Report Generator and verify_token runs
Verified == api.pc \in {"idle", "done"} /\ api' # api
\* the token's expiry has passed at clock t
Expired(token, t) == token.exp # NoExp /\ token.exp <= t
\* the request was rejected as unauthenticated, before the handler
Rejected401(r) == r.pc = "done" /\ r.resp.status = 401 /\ ~r.auth.ok /\ r.resp.lines = <<>>

\* C12 (state): a request whose header is missing or not `Bearer <token>`,
\* whose token does not verify under RS256 against the provider's keys, or
\* whose username claim is absent or empty, was rejected with 401 and never
\* reached the handler.
C12_Defective ==
    LET token == api.header.token IN
    (api.pc # "idle"
        /\ \/ api.header.scheme # "Bearer"
           \/ ~token.wellformed \/ ~token.kid \/ token.alg # "RS256" \/ ~token.signed
           \/ token.preferred_username = NoClaim
           \/ token.preferred_username = <<>>)
    => Rejected401(api)

\* C12 (steps): a request arriving with a token whose expiry has passed is
\* rejected with 401.
C12_Expired ==
    (Verified /\ Expired(api'.header.token, now)) => Rejected401(api')

\* C12: verify_token returns no identity, and the endpoint answers 401 and
\* never 200, when the Authorization header is missing or not a Bearer header,
\* the signature does not verify under RS256, the token has expired, or the
\* username claim is absent or empty.
C12_Theorem == []C12_Defective /\ [][C12_Expired]_vars

\* C12 witness: a correctly signed, unexpired token with an empty username
\* claim has been rejected with 401.
C12_Witness ==
    /\ Rejected401(api)
    /\ api.header.scheme = "Bearer"
    /\ api.header.token \in IssuedTokens
    /\ api.header.token.preferred_username = <<>>
    /\ api.resp.detail = "Token verification failed"

\* C13 (steps): whatever the request before it was, a request is let in only
\* if its token verifies at the clock of this request; one whose token has
\* expired is rejected with 401 although the request before it carried the
\* same token and was let in.
C13_EveryRequest ==
    Verified =>
        /\ api'.auth.ok =>
             /\ api'.header.token \in IssuedTokens
             /\ ~Expired(api'.header.token, now)
             /\ api'.auth = Identity(api'.header.token)
        /\ (api'.again /\ Expired(api'.header.token, now)) => Rejected401(api')

\* C13: the Report Generator verifies the bearer token on every request and
\* keeps no verdict from earlier requests: after the token's expiry a request
\* is rejected with 401 even if earlier requests with the same token were
\* accepted.
C13_Theorem == [][C13_EveryRequest]_vars

\* C13 witness: a request has been rejected as expired whose token the request
\* before it was let in with.
C13_Witness ==
    api.again /\ Rejected401(api) /\ api.resp.detail = "Token expired"

\* the handler of the request has run to its end
Handled == api.pc = "done" /\ api.auth.ok
\* s begins with the characters of prefix
BeginsWith(s, prefix) == \E n \in 0..Len(s) : SubSeq(s, 1, n) = prefix
\* the usernames the fixed table lists
Listed ==
    {Numbered(user, 1), Numbered(user, 2), Numbered(prothetic, 1),
     Numbered(prothetic, 2), Numbered(prothetic, 3), Numbered(admin, 1)}

\* C14 (state): the scope key the handler used for username u is the table's
\* entry when u is listed (user1 CLI001, user2 CLI002, prothetic1 CLI003,
\* prothetic2 CLI004, prothetic3 CLI005, admin1 CLI006), else CLI003 when u
\* begins with 'prothetic', else CLI001 when u begins with 'user', else CLI006.
C14_ScopeKey ==
    Handled =>
        LET u == api.auth.preferred_username
            k == api.client_id
        IN  /\ k # ""
            /\ u = Numbered(user, 1) => k = "CLI001"
            /\ u = Numbered(user, 2) => k = "CLI002"
            /\ u = Numbered(prothetic, 1) => k = "CLI003"
            /\ u = Numbered(prothetic, 2) => k = "CLI004"
            /\ u = Numbered(prothetic, 3) => k = "CLI005"
            /\ u = Numbered(admin, 1) => k = "CLI006"
            /\ (u \notin Listed /\ BeginsWith(u, prothetic)) => k = "CLI003"
            /\ (u \notin Listed /\ ~BeginsWith(u, prothetic) /\ BeginsWith(u, user))
                  => k = "CLI001"
            /\ (u \notin Listed /\ ~BeginsWith(u, prothetic) /\ ~BeginsWith(u, user))
                  => k = "CLI006"

\* C14 (steps): the step that maps the username changes neither the table nor
\* the clock nor anything of the gateway.
C14_NoEffect ==
    (api.pc = "handler" /\ api' # api) => (table' = table /\ now' = now /\ gw' = gw)

\* C14: get_client_id_for_user gives every username a scope key: the fixed
\* table's entry, else CLI003 for the prefix 'prothetic', else CLI001 for the
\* prefix 'user', else CLI006; it never fails and changes no state.
C14_Theorem == []C14_ScopeKey /\ [][C14_NoEffect]_vars

\* C14 witness: a user outside the table whose name begins with 'prothetic' has
\* been served under CLI003.
C14_Witness ==
    /\ Handled
    /\ api.auth.preferred_username = Numbered(prothetic, 4)
    /\ api.client_id = "CLI003"

\* C15: the answer is 404, carrying the scope key, exactly when the query
\* succeeded and the table holds no row of the scope; it is 500 exactly when
\* the query raised; neither answer carries CSV.
C15_Theorem ==
    Handled =>
        LET none == \A r \in table : r.client_id # api.client_id IN
        /\ api.client_id = get_client_id_for_user(api.auth.preferred_username)
        /\ (api.resp.status = 404) = (~api.raised /\ none)
        /\ (api.resp.status >= 500) = api.raised
        /\ api.resp.status = 404 =>
             /\ api.resp.client_id = api.client_id
             /\ api.resp.username = api.auth.preferred_username
        /\ api.resp.status \in {404, 500} =>
             /\ api.resp.lines = <<>>
             /\ api.resp.media_type # "text/csv"
        /\ api.resp.status \in {200, 404, 500}

\* C15 witness: a user whose scope has no row has been answered 404 while the
\* table holds rows of other scopes.
C15_Witness ==
    /\ Handled /\ api.resp.status = 404
    /\ table # {}
    /\ api.resp.client_id = "CLI003"

\* the column of a CSV line
Col(line, name) == line[CHOOSE i \in 1..Len(Columns) : Columns[i] = name]
\* the rows of the scope in the table
Scope == {r \in table : r.client_id = api.client_id}
\* the CSV line made from the j-th signal of the i-th row of the result set
LineOf(i, j) == api.resp.lines[1 + 5 * (i - 1) + j]

\* C16: a successful report over the N >= 1 rows of the scope is the header
\* line followed by exactly 5*N data lines: five consecutive lines per row, the
\* rows as the query returned them (latest date first), the signal types
\* avg_joint_angle, max_joint_angle, min_joint_angle, avg_pressure,
\* avg_battery in that order.
C16_Theorem ==
    (Handled /\ api.resp.status = 200) =>
        LET N == Cardinality(Scope) IN
        /\ N >= 1
        /\ Len(api.results) = N
        /\ {api.results[i] : i \in 1..N} = Scope
        /\ \A i \in 1..N, k \in 1..N : i < k => api.results[i].date >= api.results[k].date
        /\ api.resp.media_type = "text/csv"
        /\ Len(api.resp.lines) = 1 + 5 * N
        /\ api.resp.lines[1] = Columns
        /\ \A i \in 1..N :
             /\ Col(LineOf(i, 1), "Signal Type") = "avg_joint_angle"
             /\ Col(LineOf(i, 2), "Signal Type") = "max_joint_angle"
             /\ Col(LineOf(i, 3), "Signal Type") = "min_joint_angle"
             /\ Col(LineOf(i, 4), "Signal Type") = "avg_pressure"
             /\ Col(LineOf(i, 5), "Signal Type") = "avg_battery"
             /\ \A j \in 1..5 : Col(LineOf(i, j), "Created Date") = <<api.results[i].date>>

\* C16 witness: a report over two rows of different dates has been produced.
C16_Witness ==
    /\ Handled /\ api.resp.status = 200
    /\ Len(api.results) = 2
    /\ api.results[1].date > api.results[2].date
    /\ Len(api.resp.lines) = 11

\* C17: every data line made from row r carries r's scope key as User ID, r's
\* date as Created Date, r's avg_battery as Battery Level on all five lines,
\* 24 as Usage Hours and, as Signal Value, r's aggregate named by the line's
\* Signal Type; every User ID is the scope key mapped from the requesting
\* username.
C17_Theorem ==
    (Handled /\ api.resp.status = 200) =>
        \A i \in 1..Len(api.results) :
            LET r == api.results[i] IN
            /\ r \in table
            /\ \A j \in 1..5 :
                 LET line == LineOf(i, j) IN
                 /\ Col(line, "User ID") = r.client_id
                 /\ Col(line, "User ID")
                       = get_client_id_for_user(api.header.token.preferred_username)
                 /\ Col(line, "Created Date") = <<r.date>>
                 /\ Col(line, "Battery Level") = r.avg_battery
                 /\ Col(line, "Usage Hours") = 24
            /\ Col(LineOf(i, 1), "Signal Value") = r.avg_joint_angle
            /\ Col(LineOf(i, 2), "Signal Value") = r.max_joint_angle
            /\ Col(LineOf(i, 3), "Signal Value") = r.min_joint_angle
            /\ Col(LineOf(i, 4), "Signal Value") = r.avg_pressure
            /\ Col(LineOf(i, 5), "Signal Value") = r.avg_battery

\* C17 witness: a report over two rows of one date with different battery
\* readings has been produced.
C17_Witness ==
    /\ Handled /\ api.resp.status = 200
    /\ Len(api.results) = 2
    /\ api.results[1].date = api.results[2].date
    /\ Col(LineOf(1, 1), "Battery Level") # Col(LineOf(2, 1), "Battery Level")

\* ------------------------------------------------ claims: the gateway, again
\* C18: a callback whose exchange was accepted and whose userinfo call then
\* raised or answered non-200 completes the login as the other path does: the
\* front-end redirect with the cookie, the handle in the table holding the
\* exchanged tokens and the placeholder identity, the state entry deleted.
C18_Theorem ==
    \A w \in Callbacks :
        LET p == pool[w] IN
        (p.pc = "done" /\ Len(p.calls) >= 2
            /\ p.calls[1].status = 200 /\ p.calls[2].status # 200)
        => /\ p.calls[2] = Call("userinfo", p.tokens.access_token, p.calls[2].status)
           /\ p.resp = CallbackSuccess(p.sid)
           /\ p.resp.status = 302 /\ p.resp.set_cookie = p.sid /\ p.sid # NoCookie
           /\ Has(p.sid)
           /\ sessions[p.sid].status = "active"
           /\ sessions[p.sid].access_token = p.tokens.access_token
           /\ sessions[p.sid].refresh_token = p.tokens.refresh_token
           /\ sessions[p.sid].id_token = p.tokens.id_token
           /\ sessions[p.sid].user_info = Placeholder
           /\ ~Has(p.key)

\* C18 witness: a login has completed although its userinfo call raised.
C18_Witness ==
    \E w \in Callbacks :
        /\ pool[w].pc = "done" /\ Len(pool[w].calls) = 2
        /\ pool[w].calls[2].status = NetErr
        /\ pool[w].found /\ pool[w].tok # None
        /\ Has(pool[w].sid) /\ sessions[pool[w].sid].user_info = "user_from_keycloak"

\* C19: with a client secret, /auth/login adds exactly one entry, a pending one
\* holding a code verifier, under a state that was never a key, and leaves every
\* other entry as it was; without a client secret it answers 500 and leaves the
\* table as it was.
C19_Theorem ==
    [][Arrives(loop, loop', "login") =>
        IF client_secret
        THEN /\ loop'.resp.status = 302
             /\ loop'.key \notin DOMAIN sessions
             /\ loop'.key \notin 1..issued
             /\ loop'.key \notin DOMAIN removed
             /\ DOMAIN sessions' = DOMAIN sessions \cup {loop'.key}
             /\ \A k \in DOMAIN sessions : sessions'[k] = sessions[k]
             /\ sessions'[loop'.key].status = "pending"
             /\ sessions'[loop'.key].code_verifier # None
             /\ sessions'[loop'.key].access_token = None
        ELSE /\ loop'.resp.status = 500
             /\ loop'.resp.detail = "Client secret not configured"
             /\ sessions' = sessions
             /\ issued' = issued]_vars

\* C19 witness: a login has added its pending entry to a table that holds an
\* active session and another pending entry.
C19_Witness ==
    /\ loop.op = "login" /\ loop.pc = "done" /\ loop.resp.status = 302
    /\ Has(loop.key) /\ sessions[loop.key].status = "pending"
    /\ \E k \in DOMAIN sessions : sessions[k].status = "active"
    /\ \E k \in DOMAIN sessions : k # loop.key /\ sessions[k].status = "pending"

\* the number a base64 character stands for
B64Value(c) == CHOOSE v \in 0..63 : B64Alphabet[v + 1] = c
\* byte i of the data that the unpadded base64 text encodes
B64Byte(text, i) ==
    LET q == (8 * (i - 1)) \div 6
        r == (8 * (i - 1)) % 6
        pair == B64Value(text[q + 1]) * 64 + B64Value(text[q + 2])
    IN  CASE r = 0 -> (pair \div 16) % 256
          [] r = 2 -> (pair \div 4) % 256
          [] r = 4 -> pair % 256

\* C20 (login): the code_challenge in the redirect of /auth/login is 43
\* characters of the URL-safe alphabet, without padding, that decode to the
\* SHA256 digest of the code verifier stored under the state of this login.
C20_Challenge ==
    (loop.op = "login" /\ loop.pc = "done" /\ loop.resp.status = 302) =>
        LET text == loop.resp.code_challenge
            digest == sha256(sessions[loop.key].code_verifier)
        IN  /\ Has(loop.key)
            /\ Len(text) = 43
            /\ \A k \in 1..Len(text) : \E v \in 0..63 : B64Alphabet[v + 1] = text[k]
            /\ \A i \in 1..32 : B64Byte(text, i) = digest[i]
            /\ B64Value(text[43]) % 4 = 0

\* C20 (callback): the token exchange of a callback on a pending state sends
\* the verifier stored under that state, which no other entry holds.
C20_Verifier ==
    \A w \in Callbacks :
        LET p == pool[w] IN
        (CallsTo(p, "token") # {} /\ p.found /\ p.tok # None) =>
            /\ p.calls[1] = Call("token", generate_pkce_code_verifier(p.key),
                                 p.calls[1].status)
            /\ Has(p.key) => sessions[p.key].code_verifier = p.calls[1].cred
            /\ \A k \in DOMAIN sessions \ {p.key} :
                 sessions[k].code_verifier # p.calls[1].cred

\* C20: PKCE binding: the code_challenge sent by /auth/login is the unpadded
\* base64url text of the SHA256 digest of the verifier stored under the
\* generated state, and /auth/callback(state) sends in the token exchange
\* exactly the verifier stored under that state, never that of another login.
C20_Theorem == []C20_Challenge /\ []C20_Verifier

\* C20 witness: a callback has sent the verifier of its state in the exchange
\* while the pending entry of another login, with another verifier, is in the
\* table.
C20_Witness ==
    \E w \in Callbacks :
        /\ CallsTo(pool[w], "token") # {}
        /\ pool[w].calls[1].cred = generate_pkce_code_verifier(pool[w].key)
        /\ \E k \in DOMAIN sessions :
             k # pool[w].key /\ sessions[k].status = "pending"

\* keys whose entry was in the table when the gateway restarted
Lost == {k \in DOMAIN removed : removed[k] = "restart"}

\* C21 (restart): a step in which keys are lost to a restart leaves the table
\* empty.
C21_Empty == Lost' # Lost => sessions' = <<>>

\* C21 (state): no key lost in a restart is in the table again.
C21_Gone == \A k \in Lost : ~Has(k)

\* C21 (requests): a request arriving with a key lost in a restart is answered
\* at once, without a call and without a change to the table: /auth/status
\* with authenticated:false, /auth/user and /api/reports with 401,
\* /auth/callback with the redirect to login.
C21_Unauthenticated ==
    /\ (Arrives(loop, loop', "status") /\ loop'.key \in Lost) =>
           /\ loop'.pc = "done" /\ loop'.resp = BaseResp /\ loop'.calls = <<>>
           /\ sessions' = sessions
    /\ (Arrives(loop, loop', "user") /\ loop'.key \in Lost) =>
           /\ loop'.pc = "done" /\ loop'.resp = HTTPError(401, "Not authenticated")
           /\ sessions' = sessions
    /\ \A w \in Workers :
         /\ (Arrives(pool[w], pool'[w], "reports") /\ pool'[w].key \in Lost) =>
                /\ pool'[w].pc = "done"
                /\ pool'[w].resp = HTTPError(401, "Not authenticated")
                /\ pool'[w].calls = <<>>
                /\ sessions' = sessions
         /\ (Arrives(pool[w], pool'[w], "callback") /\ pool'[w].key \in Lost) =>
                /\ pool'[w].pc = "done"
                /\ pool'[w].resp = [BaseResp EXCEPT !.status = 302, !.location = "login"]
                /\ pool'[w].calls = <<>>
                /\ sessions' = sessions

\* C21: the table lives in the gateway process only: after a restart it is
\* empty, every cookie issued before is unauthenticated for /auth/status,
\* /auth/user and /api/reports, and every state issued before is an invalid
\* attempt for /auth/callback.
C21_Theorem == []C21_Gone /\ [][C21_Empty /\ C21_Unauthenticated]_vars

\* C21 witness: after a restart that lost an active session and a pending
\* state, /api/reports has answered 401 to the cookie of that session.
C21_Witness ==
    /\ \E k \in Lost : k \notin DOMAIN origin
    /\ \E w \in Reports :
         /\ pool[w].pc = "done" /\ pool[w].resp.status = 401
         /\ pool[w].key \in Lost /\ pool[w].key \in DOMAIN origin

\* the handler on the event loop takes a step on the pending entry its cookie names
OnPending == loop' # loop /\ Has(loop'.key) /\ sessions[loop'.key].status = "pending"

\* C22: a pending entry is never taken for a session.  For a cookie that is the
\* state key of a pending entry /auth/user answers 401, /auth/status answers
\* authenticated:false and /api/reports 401, and neither /auth/status nor
\* /auth/logout removes the entry or reports session_cleared:true.
C22_PendingIsNoSession ==
    [][/\ (OnPending /\ loop'.op = "user" /\ loop'.pc = "done") =>
              loop'.resp.status = 401
       /\ (OnPending /\ loop'.op = "status") =>
              /\ loop'.key \in DOMAIN sessions'
              /\ loop'.pc = "done" => ~loop'.resp.authenticated
       /\ (OnPending /\ loop'.op = "logout") =>
              /\ loop'.key \in DOMAIN sessions'
              /\ loop'.pc = "done" => ~loop'.resp.session_cleared
       /\ \A w \in Reports :
              (pool[w].pc = "done" /\ Has(pool[w].key)
                  /\ sessions[pool[w].key].status = "pending")
              => pool[w].resp.status = 401]_vars

\* the answer of a request that found its entry at the membership check and
\* not at a later access
Faulted(p) ==
    /\ p.pc = "done" /\ p.found
    /\ p.resp \in {Unhandled, CallbackFailure("Authentication failed: KeyError")}

\* C23: under every interleaving no handler faults on an entry that vanished
\* after its membership check: no request that passed the check ends in an
\* unhandled error; /auth/user and /api/reports answer 401, /auth/callback
\* redirects to login.
C23_NoFault ==
    /\ ~Faulted(loop)
    /\ \A w \in Workers : ~Faulted(pool[w])

\* C24 (failed callback): the step in which a callback's token exchange is
\* answered non-200 or raises ends the request and leaves the table as it was.
C24_FailedLeaves ==
    \A w \in Workers :
        (pool[w].pc = "cb_exchange" /\ pool'[w] # pool[w]
            /\ pool'[w].calls[1].status # 200)
        => /\ pool'[w].pc = "done"
           /\ sessions' = sessions

\* C24 (removal): a pending entry leaves the table, or changes, only in the
\* delete step of a callback on its state whose exchange was accepted.
C24_OnlyAcceptedRemoves ==
    \A k \in DOMAIN sessions :
        (sessions[k].status = "pending"
            /\ (k \notin DOMAIN sessions' \/ sessions'[k] # sessions[k]))
        => \E w \in Callbacks :
             /\ pool[w].key = k /\ pool[w].pc = "cb_del"
             /\ pool[w].calls[1].status = 200

\* C24: a failed /auth/callback leaves the pending entry of its state
\* unchanged, so the entry is removed only by a callback whose exchange
\* succeeds (and a later callback with the same state and an accepted code
\* still finds it).
C24_FailedCallbackFrame == [][C24_FailedLeaves /\ C24_OnlyAcceptedRemoves]_vars


\* a load task that has ended: returned, or raised from its fallback
Ended == etl.pc \in {"done", "failed"}
\* the rows the load task was given
Given == inserted(data_to_insert(etl.transformed_data))

\* the store never holds two rows for one (client_id, date)
C25_OneRowPerKey ==
    \A r1, r2 \in table :
        r1.client_id = r2.client_id /\ r1.date = r2.date => r1 = r2
\* a load that was given records and returned has left exactly those rows
C25_ReturnedReplaces ==
    etl.pc = "done" /\ etl.transformed_data # {} => table = Given
\* a load that was given no record leaves the table and returns
C25_EmptyLeaves ==
    etl.pc = "load" /\ etl.transformed_data = {} /\ etl' # etl
        => table' = table /\ etl'.pc = "done"
\* a query that runs between the TRUNCATE and the INSERT finds no row
C25_QueryWhileLoading ==
    /\ api.pc = "handler" /\ api'.pc = "done" /\ etl.pc \in Inserting
    /\ api.auth.preferred_username \notin {NoClaim, <<>>} /\ ~api'.raised
    => /\ api'.results = <<>>
       /\ api'.resp.status = 404
\* such a query was answered 404 for a scope key that had rows before the
\* load and has rows after it
C25_SeenEmpty ==
    /\ api.pc = "done" /\ api.loading /\ api.resp.status = 404
    /\ api.client_id \in etl.before
    /\ etl.pc = "done"
    /\ \E r \in table : r.client_id = api.client_id

\* C25: after any sequence of ETL runs the store holds at most one row per
\* (client_id, date); a load that receives a non-empty transform result
\* replaces the whole table with exactly those records, and a load that
\* receives an empty one leaves the table unchanged; a query between the
\* TRUNCATE and the INSERT observes zero rows and is answered 404
C25_LoadReplaces ==
    /\ [](C25_OneRowPerKey /\ (Ended /\ etl.transformed_data # {} => table = Given))
    /\ [][C25_EmptyLeaves /\ C25_QueryWhileLoading]_vars

====
